---------------------------- MODULE Spec2Model ----------------------------
(***************************************************************************)
(* A model of the verification engine of src/md5.py: calculateMd5 and      *)
(* VerifierThread (run, _processFile, stop) on top of a ThreadPoolExecutor.*)
(*                                                                         *)
(* One run of a VerifierThread over NumTasks tasks is modelled.  Each      *)
(* task's position inside _processFile / calculateMd5 is pc[t], named      *)
(* after the source line the task is about to execute.  The dispatch loop  *)
(* of run() is pcRun.  File sizes and byte counts are measured in blocks   *)
(* of blockSize bytes (every read returns one full block or end of file).  *)
(* The file system is the environment: existence, size, open and read      *)
(* outcomes are chosen nondeterministically at the call that observes them.*)
(*                                                                         *)
(* Spec is one run, from the moment _onStartButtonClicked has started the  *)
(* thread to the moment _onAllFinished has shown its summary; stop() may   *)
(* be called at any moment.  ParseSpec is one call of _parseManifest on a  *)
(* manifest of at most MaxLines lines.  AppSpec is the main window under   *)
(* the operator's actions (mode, Browse, Start, Change Mode, close), with  *)
(* the steps of the thread a Start creates.  The signals of the thread are *)
(* queued for the GUI thread, whose slots handle them in order.            *)
(***************************************************************************)
EXTENDS Integers, Sequences, FiniteSets, TLC

(* ------------------------------ bounds -------------------------------- *)
NumTasks == 2
MaxBlocks == 2
MaxThreads == 2
MaxLines == 2

Tasks == 1..NumTasks

(* ------------------------- values of the code ------------------------- *)
\* hashlib.md5().hexdigest() yields lower-case hex; stand-in digests, "d41d"
\* for the digest of the empty input (d41d8cd98f00b204e9800998ecf8427e).
Digests == {"d41d", "9e10", "c4ca"}

\* md5.hexdigest() after n blocks went through md5.update(): the digest of
\* the empty input when nothing was read, otherwise whatever the content
\* hashes to.
Hexdigest(n) == IF n = 0 THEN {"d41d"} ELSE Digests \ {"d41d"}

\* FileTask.expectedHash of task t, as written in the manifest (any case).
expectedHash(t) == IF t = 1 THEN "D41D" ELSE "9e10"

\* str.lower() on the strings the model uses.
Lower(s) ==
    CASE s = "D41D" -> "d41d"
      [] s = "9E10" -> "9e10"
      [] s = "OK" -> "ok"
      [] s = "FAILED" -> "failed"
      [] s = "MISSING" -> "missing"
      [] s = "ERROR" -> "error"
      [] s = "CANCELLED" -> "cancelled"
      [] OTHER -> s

\* int((bytesRead / totalSize) * 100), totalSize > 0.
Percentage(read, total) == (read * 100) \div total

SummaryKeys == {"ok", "failed", "missing", "error", "total"}

VARIABLES
    isRunning,       \* VerifierThread.isRunning, the cancellation flag
    threadCount,     \* VerifierThread.threadCount
    pc,              \* per task: future state / position in _processFile
    totalSize,       \* calculateMd5 local, per task
    bytesRead,       \* calculateMd5 local, per task
    lastPercentage,  \* calculateMd5 local, per task
    actualMd5,       \* _processFile local: what calculateMd5 returned
    result,          \* what the task's future holds
    pcRun,           \* position of run()
    submitIdx,       \* run(): next task to submit
    cancelIdx,       \* run(): next future to cancel
    yielded,         \* futures as_completed has already yielded
    summary,         \* run(): the summary dict
    startedEv,       \* history: number of fileStarted emissions per task
    progressEv,      \* history: fileProgress values emitted by the task's
                     \*   _processFile call while it is in progress
    finishedEv,      \* history: fileFinished statuses emitted per task
    allFinishedEv,   \* history: summaries emitted by allFinished
    readsAfterStop,  \* history: f.read calls the task's call in progress
                     \*   made while isRunning was False
    inFlightAtStop,  \* history: tasks whose call in progress was in the
                     \*   read loop when stop() ran
    workerThread,    \* MainWindow.workerThread: "None" or "thread"
    tasksLen,        \* len(MainWindow.tasks)
    verificationMode,\* MainWindow.verificationMode
    modeSelector,    \* item data of welcomeModeSelector's current index
    page,            \* current widget of MainWindow.stack
    startEnabled,    \* startButton.isEnabled()
    browseEnabled,   \* browseButton.isEnabled()
    buttonStack,     \* current widget of MainWindow.buttonStack
    statusMsg,       \* what the status bar shows
    lastLoad,        \* history: how the latest manifest load ended
    guiQueue,        \* signals emitted by the thread and not yet handled by
                     \*   the GUI thread, oldest first
    activeVerificationCount, \* MainWindow.activeVerificationCount
    appState,        \* "running", "closed" (the close event was accepted),
                     \*   or the exception a handler of the GUI left unhandled
    manifest,        \* the manifest file: its lines, as decoded text
    manifestPath,    \* _parseManifest argument (path components)
    rootFolder,      \* _parseManifest argument (path components)
    pcParse,         \* position of _parseManifest
    lines,           \* _parseManifest local: the lines still to be parsed
    parsedTasks,     \* _parseManifest local: tasks
    parseResult      \* what _parseManifest returned

vars == <<isRunning, threadCount, pc, totalSize, bytesRead, lastPercentage,
          actualMd5, result, pcRun, submitIdx, cancelIdx, yielded, summary,
          startedEv, progressEv, finishedEv, allFinishedEv,
          readsAfterStop, inFlightAtStop, workerThread, tasksLen,
          verificationMode, modeSelector, page, startEnabled, browseEnabled,
          buttonStack, statusMsg, lastLoad, guiQueue,
          activeVerificationCount, appState, manifest, manifestPath,
          rootFolder, pcParse, lines, parsedTasks, parseResult>>

parseVars == <<manifest, manifestPath, rootFolder, pcParse, lines,
               parsedTasks, parseResult>>

guiVars == <<workerThread, tasksLen, verificationMode, modeSelector, page,
             startEnabled, browseEnabled, buttonStack, statusMsg, lastLoad>>
slotVars == <<guiQueue, activeVerificationCount, appState>>
taskLocals == <<totalSize, bytesRead, lastPercentage, actualMd5>>
runVars == <<pcRun, submitIdx, cancelIdx, yielded, summary, allFinishedEv>>
eventVars == <<startedEv, progressEv, finishedEv>>
histVars == <<readsAfterStop, inFlightAtStop>>

\* Positions at which a work item occupies a pool thread.
RunningPcs == {"l187", "l190", "l123", "l128", "l130", "l135", "l140",
               "l205"}

\* Positions inside calculateMd5's "with open(...)" read loop.
ReadLoopPcs == {"l128", "l130", "l135"}

(* ------------------------------- Init --------------------------------- *)
\* The main window as _onStartButtonClicked leaves it (lines 526-538): the
\* controls are disabled, the Quit button is shown, a VerifierThread exists.
GuiRunStarted ==
    /\ workerThread = "thread"
    /\ tasksLen = NumTasks
    /\ verificationMode = "REPACK"
    /\ modeSelector = "REPACK"
    /\ page = "main"
    /\ startEnabled = FALSE
    /\ browseEnabled = FALSE
    /\ buttonStack = "quit"
    /\ statusMsg = "in progress"
    /\ lastLoad = "ok"
    /\ guiQueue = <<>>
    /\ activeVerificationCount = 0
    /\ appState = "running"

\* No manifest is being parsed.
ParserIdle ==
    /\ manifest = <<>>
    /\ manifestPath = <<>>
    /\ rootFolder = <<>>
    /\ pcParse = "idle"
    /\ lines = <<>>
    /\ parsedTasks = <<>>
    /\ parseResult = "unset"

\* Lines 154-159: a VerifierThread that has not taken a step yet.
ThreadCreated ==
    /\ isRunning = TRUE
    /\ pc = [t \in Tasks |-> "unsubmitted"]
    /\ totalSize = [t \in Tasks |-> 0]
    /\ bytesRead = [t \in Tasks |-> 0]
    /\ lastPercentage = [t \in Tasks |-> -1]
    /\ actualMd5 = [t \in Tasks |-> "unset"]
    /\ result = [t \in Tasks |-> "unset"]
    /\ pcRun = "l162"
    /\ submitIdx = 1
    /\ cancelIdx = 0
    /\ yielded = {}
    /\ summary = [k \in SummaryKeys |-> 0]
    /\ startedEv = [t \in Tasks |-> 0]
    /\ progressEv = [t \in Tasks |-> <<>>]
    /\ finishedEv = [t \in Tasks |-> <<>>]
    /\ allFinishedEv = <<>>
    /\ readsAfterStop = [t \in Tasks |-> 0]
    /\ inFlightAtStop = {}

\* One run: the thread has just been started by _onStartButtonClicked.
Init ==
    /\ GuiRunStarted
    /\ ParserIdle
    /\ threadCount \in 1..MaxThreads
    /\ ThreadCreated


(* ----------------------- ThreadPoolExecutor --------------------------- *)
\* ThreadPoolExecutor(max_workers=self.threadCount): a work item is taken
\* only by a pool thread, and the pool has at most threadCount threads,
\* each running one work item at a time.
\* (as a bug: work items are started as they are submitted, pool unbounded)
WorkerAvailable_Unbounded == TRUE

WorkerAvailable == Cardinality({t \in Tasks : pc[t] \in RunningPcs}) < threadCount

\* The work queue is FIFO and the tasks are submitted in index order: the
\* next work item is the lowest-index future still pending (a worker drops
\* cancelled work items without running them).
NextWorkItem(t) ==
    /\ pc[t] = "pending"
    /\ \A u \in Tasks : u < t => pc[u] # "pending"

\* (as a bug: the read loop never looks at the flag)
IsRunningCheck_Ignored == TRUE

\* lambda: self.isRunning (line 197), called at line 128.
IsRunningCheck == isRunning

\* _processFile returns status r (or raises, r = "EXC"): the future is done
\* and the locals of the call, and the log of its progress, are gone.
Return(t, r) ==
    /\ pc' = [pc EXCEPT ![t] = "finished"]
    /\ result' = [result EXCEPT ![t] = r]
    /\ totalSize' = [totalSize EXCEPT ![t] = 0]
    /\ bytesRead' = [bytesRead EXCEPT ![t] = 0]
    /\ lastPercentage' = [lastPercentage EXCEPT ![t] = -1]
    /\ actualMd5' = [actualMd5 EXCEPT ![t] = "unset"]
    /\ progressEv' = [progressEv EXCEPT ![t] = <<>>]
    /\ readsAfterStop' = [readsAfterStop EXCEPT ![t] = 0]
    /\ inFlightAtStop' = inFlightAtStop \ {t}

\* calculateMd5 returns r to _processFile (line 199), which goes on at 205.
CalcReturn(t, r) ==
    /\ pc' = [pc EXCEPT ![t] = "l205"]
    /\ actualMd5' = [actualMd5 EXCEPT ![t] = r]
    /\ totalSize' = [totalSize EXCEPT ![t] = 0]
    /\ bytesRead' = [bytesRead EXCEPT ![t] = 0]
    /\ lastPercentage' = [lastPercentage EXCEPT ![t] = -1]

\* progressCallback(p), line 196: fileProgress.emit(index, p) if isRunning.
ProgressCallback(t, p) ==
    progressEv' = [progressEv EXCEPT
                     ![t] = IF isRunning THEN Append(@, p) ELSE @]

\* One f.read call by task t is recorded if the flag is already cleared.
CountRead(t) ==
    readsAfterStop' = [readsAfterStop EXCEPT
                         ![t] = IF isRunning THEN @ ELSE @ + 1]

(* --------------------------- worker steps ----------------------------- *)
\* A pool thread takes the next work item and starts _processFile.
PickUp(t) ==
    /\ NextWorkItem(t)
    /\ WorkerAvailable
    /\ pc' = [pc EXCEPT ![t] = "l187"]
    /\ UNCHANGED <<slotVars, parseVars, guiVars, isRunning, threadCount, taskLocals, result, runVars,
                   eventVars, histVars>>

\* Lines 187-188: if not self.isRunning: return "CANCELLED".
CheckRunning(t) ==
    /\ pc[t] = "l187"
    /\ IF isRunning
         THEN /\ pc' = [pc EXCEPT ![t] = "l190"]
              /\ UNCHANGED <<taskLocals, result, progressEv, histVars>>
         ELSE Return(t, "CANCELLED")
    /\ UNCHANGED <<slotVars, parseVars, guiVars, isRunning, threadCount, runVars, startedEv, finishedEv>>

\* Lines 190-194: self.fileStarted.emit(index), then
\* os.path.exists(task.filepath), whose answer is the file system's; a
\* missing file is reported and ends the task.
EmitStarted(t) ==
    /\ pc[t] = "l190"
    /\ startedEv' = [startedEv EXCEPT ![t] = @ + 1]
    /\ \E exists \in BOOLEAN :
         IF exists
           THEN /\ pc' = [pc EXCEPT ![t] = "l123"]
                /\ guiQueue' = Append(guiQueue, <<"Started", t>>)
                /\ UNCHANGED <<taskLocals, result, progressEv, finishedEv,
                               histVars>>
           ELSE /\ finishedEv' = [finishedEv EXCEPT ![t] = Append(@, "MISSING")]
                /\ guiQueue' = guiQueue \o << <<"Started", t>>,
                                               <<"Finished", t>> >>
                /\ Return(t, "MISSING")
    /\ UNCHANGED <<activeVerificationCount, appState, parseVars, guiVars,
                   isRunning, threadCount, runVars>>

\* Lines 123-126: os.path.getsize, then open(filepath, 'rb').  Either call
\* may raise FileNotFoundError (line 143) or another OSError (line 145).
OpenFile(t) ==
    /\ pc[t] = "l123"
    /\ \/ \E r \in {"None", "IO_ERROR"} : CalcReturn(t, r)
       \/ \E size \in 0..MaxBlocks :
            /\ totalSize' = [totalSize EXCEPT ![t] = size]
            /\ bytesRead' = [bytesRead EXCEPT ![t] = 0]
            /\ lastPercentage' = [lastPercentage EXCEPT ![t] = -1]
            /\ pc' = [pc EXCEPT ![t] = "l128"]
            /\ UNCHANGED actualMd5
    /\ UNCHANGED <<slotVars, parseVars, guiVars, isRunning, threadCount, result, runVars, eventVars,
                   histVars>>

\* Lines 128-129: if isRunningCheck and not isRunningCheck(): return
\* "CANCELLED".
LoopCheck(t) ==
    /\ pc[t] = "l128"
    /\ IF IsRunningCheck
         THEN /\ pc' = [pc EXCEPT ![t] = "l130"]
              /\ UNCHANGED taskLocals
         ELSE CalcReturn(t, "CANCELLED")
    /\ UNCHANGED <<slotVars, parseVars, guiVars, isRunning, threadCount, result, runVars, eventVars,
                   histVars>>

\* Lines 130-134 and the test of lines 135-137: one f.read(blockSize).  It
\* returns a block, returns b'' at end of file, raises an OSError, or raises
\* something else (an unexpected fault, which leaves calculateMd5 and
\* _processFile and ends in the future).  The file may have any length up
\* to MaxBlocks, whatever getsize said before.
ReadChunk(t) ==
    /\ pc[t] = "l130"
    /\ \/ /\ bytesRead[t] < MaxBlocks
          /\ bytesRead' = [bytesRead EXCEPT ![t] = @ + 1]
          /\ pc' = [pc EXCEPT ![t] =
                 IF /\ totalSize[t] > 0
                    /\ Percentage(bytesRead[t] + 1, totalSize[t]) > lastPercentage[t]
                   THEN "l135" ELSE "l128"]
          /\ CountRead(t)
          /\ UNCHANGED <<totalSize, lastPercentage, actualMd5, result,
                         progressEv, inFlightAtStop>>
       \/ /\ lastPercentage[t] < 100
          /\ pc' = [pc EXCEPT ![t] = "l140"]
          /\ CountRead(t)
          /\ UNCHANGED <<taskLocals, result, progressEv, inFlightAtStop>>
       \/ /\ lastPercentage[t] >= 100
          /\ \E d \in Hexdigest(bytesRead[t]) : CalcReturn(t, d)
          /\ CountRead(t)
          /\ UNCHANGED <<result, progressEv, inFlightAtStop>>
       \/ /\ CalcReturn(t, "IO_ERROR")
          /\ CountRead(t)
          /\ UNCHANGED <<result, progressEv, inFlightAtStop>>
       \/ Return(t, "EXC")
    /\ UNCHANGED <<slotVars, parseVars, guiVars, isRunning, threadCount, runVars, startedEv, finishedEv>>

\* Lines 138-139: progressCallback(currentPercentage); lastPercentage = it.
ReportProgress(t) ==
    /\ pc[t] = "l135"
    /\ ProgressCallback(t, Percentage(bytesRead[t], totalSize[t]))
    /\ lastPercentage' = [lastPercentage EXCEPT
                            ![t] = Percentage(bytesRead[t], totalSize[t])]
    /\ pc' = [pc EXCEPT ![t] = "l128"]
    /\ UNCHANGED <<slotVars, parseVars, guiVars, isRunning, threadCount, totalSize, bytesRead, actualMd5,
                   result, runVars, startedEv, finishedEv, histVars>>

\* Lines 140-142: progressCallback(100), return md5.hexdigest().
FinalProgress(t) ==
    /\ pc[t] = "l140"
    /\ ProgressCallback(t, 100)
    /\ \E d \in Hexdigest(bytesRead[t]) : CalcReturn(t, d)
    /\ UNCHANGED <<slotVars, parseVars, guiVars, isRunning, threadCount, result, runVars, startedEv,
                   finishedEv, histVars>>

\* (as a bug: the digests are compared as they are written)
DigestMatches_CaseSensitive(t) == actualMd5[t] = expectedHash(t)

\* Line 214: actualMd5.lower() == task.expectedHash.lower().
DigestMatches(t) == Lower(actualMd5[t]) = Lower(expectedHash(t))

\* self.fileFinished.emit(index, text), lines 208, 211, 215 and 218: the
\* signal is emitted by a pool thread and queued for the GUI thread.
EmitFinished(t, text) ==
    /\ finishedEv' = [finishedEv EXCEPT ![t] = Append(@, text)]
    /\ guiQueue' = Append(guiQueue, <<"Finished", t>>)

\* Lines 205-219: turn what calculateMd5 returned into the task's status.
PostProcess(t) ==
    /\ pc[t] = "l205"
    /\ IF ~isRunning \/ actualMd5[t] = "CANCELLED"
         THEN /\ Return(t, "CANCELLED")
              /\ UNCHANGED <<finishedEv, guiQueue>>
         ELSE IF actualMd5[t] = "None"
         THEN /\ EmitFinished(t, "MISSING")
              /\ Return(t, "MISSING")
         ELSE IF actualMd5[t] = "IO_ERROR"
         THEN /\ EmitFinished(t, "I/O ERROR")
              /\ Return(t, "ERROR")
         ELSE IF DigestMatches(t)
         THEN /\ EmitFinished(t, "OK")
              /\ Return(t, "OK")
         ELSE /\ EmitFinished(t, "FAILED")
              /\ Return(t, "FAILED")
    /\ UNCHANGED <<activeVerificationCount, appState, parseVars, guiVars,
                   isRunning, threadCount, runVars, startedEv>>

Worker(t) ==
    \/ PickUp(t)
    \/ CheckRunning(t)
    \/ EmitStarted(t)
    \/ OpenFile(t)
    \/ LoopCheck(t)
    \/ ReadChunk(t)
    \/ ReportProgress(t)
    \/ FinalProgress(t)
    \/ PostProcess(t)

(* ------------------------ VerifierThread.run -------------------------- *)
\* executor.shutdown(wait=True), line 181, returns once the pool threads
\* have left: no work item is running and none is still pending.
\* (as a bug: the wait is for every future to have run, cancelled ones too)
ExecutorDrained_AllRan == \A t \in Tasks : pc[t] = "finished"

\* (as a bug: shutdown(wait=False), the pool threads are not waited for)
ExecutorDrained_NoWait == TRUE

ExecutorDrained ==
    \A t \in Tasks : pc[t] \in {"unsubmitted", "cancelled", "finished"}

\* Line 162: summary = {"total": len(self.tasks), ...}.  self.tasks is the
\* list object the main window holds as MainWindow.tasks (line 532), so its
\* length is tasksLen at the moment the line runs.
RunBegin ==
    /\ pcRun = "l162"
    /\ summary' = [k \in SummaryKeys |-> IF k = "total" THEN tasksLen ELSE 0]
    /\ pcRun' = "submit"
    /\ UNCHANGED <<slotVars, parseVars, guiVars, isRunning, threadCount, pc,
                   taskLocals, result, submitIdx, cancelIdx, yielded,
                   allFinishedEv, eventVars, histVars>>

\* The futures of the run: the tasks line 166 has submitted.
Submitted == {t \in Tasks : t < submitIdx}

\* Line 166: self.executor.submit(self._processFile, i, task), one task per
\* step; pool threads may already run earlier tasks meanwhile.  enumerate
\* walks the shared list: it ends where the list ends at that moment, and
\* as_completed of no futures yields nothing.
Submit ==
    /\ pcRun = "submit"
    /\ IF submitIdx <= tasksLen
         THEN /\ pc' = [pc EXCEPT ![submitIdx] = "pending"]
              /\ submitIdx' = submitIdx + 1
              /\ pcRun' = IF submitIdx = NumTasks THEN "iterate" ELSE "submit"
         ELSE /\ pcRun' = IF Submitted = {} THEN "shutdown" ELSE "iterate"
              /\ UNCHANGED <<pc, submitIdx>>
    /\ UNCHANGED <<slotVars, parseVars, guiVars, isRunning, threadCount, taskLocals, result, cancelIdx,
                   yielded, summary, allFinishedEv, eventVars, histVars>>

\* Lines 169-179, one iteration of "for future in as_completed(futures)":
\* as_completed yields a done future t it has not yielded before.  With the
\* flag cleared the loop goes on to cancel the futures (line 171); otherwise
\* the result is counted, an exception of the future is swallowed (178-179).
IterateCompleted(t) ==
    /\ pcRun = "iterate"
    /\ pc[t] \in {"cancelled", "finished"}
    /\ t \notin yielded
    /\ IF ~isRunning
         THEN /\ pcRun' = "cancel"
              /\ cancelIdx' = 1
              /\ UNCHANGED <<yielded, summary>>
         ELSE /\ yielded' = yielded \cup {t}
              /\ summary' = IF result[t] \notin {"EXC", "CANCELLED"}
                              THEN [summary EXCEPT ![Lower(result[t])] = @ + 1]
                              ELSE summary
              /\ pcRun' = IF yielded' = Submitted THEN "shutdown" ELSE "iterate"
              /\ UNCHANGED cancelIdx
    /\ UNCHANGED <<slotVars, parseVars, guiVars, isRunning, threadCount, pc, taskLocals, result, submitIdx,
                   allFinishedEv, eventVars, histVars>>

\* Lines 171-173: f.cancel() for one future; it takes effect only on a
\* future that is still pending.  After the last one: break.
CancelFuture ==
    /\ pcRun = "cancel"
    /\ pc' = [pc EXCEPT ![cancelIdx] = IF @ = "pending" THEN "cancelled" ELSE @]
    /\ cancelIdx' = IF cancelIdx = NumTasks THEN 0 ELSE cancelIdx + 1
    /\ pcRun' = IF cancelIdx = NumTasks THEN "shutdown" ELSE "cancel"
    /\ UNCHANGED <<slotVars, parseVars, guiVars, isRunning, threadCount, taskLocals, result, submitIdx,
                   yielded, summary, allFinishedEv, eventVars, histVars>>

\* Lines 181-184: self.executor.shutdown(wait=True) returns, then
\* self.allFinished.emit(summary).
EmitAllFinished ==
    /\ pcRun = "shutdown"
    /\ ExecutorDrained
    /\ allFinishedEv' = Append(allFinishedEv, summary)
    /\ guiQueue' = Append(guiQueue, <<"allFinished", 0>>)
    /\ pcRun' = "done"
    /\ UNCHANGED <<activeVerificationCount, appState, parseVars, guiVars, isRunning, threadCount, pc, taskLocals, result, submitIdx,
                   cancelIdx, yielded, summary, eventVars, histVars>>

RunThread ==
    \/ RunBegin
    \/ Submit
    \/ \E t \in Tasks : IterateCompleted(t)
    \/ CancelFuture
    \/ EmitAllFinished

(* ------------------------ VerifierThread.stop ------------------------- *)
\* (as a bug: a second call of stop() sets the flag again)
Stop_Toggle ==
    /\ isRunning' = ~isRunning
    /\ inFlightAtStop' = {t \in Tasks : pc[t] \in ReadLoopPcs}
    /\ UNCHANGED <<slotVars, parseVars, guiVars, threadCount, pc, taskLocals, result, runVars, eventVars,
                   readsAfterStop>>

\* Lines 221-222: self.isRunning = False, called by the controller at any
\* moment of the run.
Stop ==
    /\ isRunning
    /\ isRunning' = FALSE
    /\ inFlightAtStop' = {t \in Tasks : pc[t] \in ReadLoopPcs}
    /\ UNCHANGED <<slotVars, parseVars, guiVars, threadCount, pc, taskLocals, result, runVars, eventVars,
                   readsAfterStop>>

(* ----------------------------- MainWindow ---------------------------- *)
\* (as a bug: the Browse button is left enabled whatever the argument)
SetControlsEnabled_BrowseStaysEnabled(enabled) ==
    LET canStart == enabled /\ tasksLen > 0 IN
    /\ browseEnabled' = TRUE
    /\ startEnabled' = canStart
    /\ buttonStack' = IF canStart THEN "start" ELSE "quit"

\* Lines 605-616, _setControlsEnabled(enabled), as the values it leaves in
\* <<browseEnabled, startEnabled, buttonStack>>.
SetControlsEnabled(enabled) ==
    LET canStart == enabled /\ tasksLen > 0 IN
    /\ browseEnabled' = enabled
    /\ startEnabled' = canStart
    /\ buttonStack' = IF canStart THEN "start" ELSE "quit"

\* Lines 589-598: the message _onAllFinished shows for a summary.
SummaryMessage(s, wasCancelled) ==
    LET okCount == s["ok"]
        issueCount == s["failed"] + s["missing"] + s["error"]
    IN  IF wasCancelled THEN "cancelled"
        ELSE IF issueCount = 0 /\ okCount > 0 THEN "success"
        ELSE "issues"

\* The signals are emitted by threads other than the GUI thread, which owns
\* the main window: each emission is queued (lines 533-536 connect with the
\* default connection type) and the GUI thread runs the slots one at a time,
\* in the order of the emissions.  fileProgress is left out of the queue:
\* its slot (lines 554-557) writes nothing but the row's progress bar.
NextSignal(kind, t) ==
    /\ appState = "running"
    /\ guiQueue # <<>>
    /\ Head(guiQueue) = <<kind, t>>
    /\ guiQueue' = Tail(guiQueue)

\* fileTable has one row per task of MainWindow.tasks (lines 499-502 and
\* 504-520): row index exists iff index < len(self.tasks).
RowExists(t) == t <= tasksLen

\* Lines 540-552: the slot connected to fileStarted (line 533).  On a row
\* that does not exist setCellWidget does nothing.
OnFileStarted(t) ==
    /\ NextSignal("Started", t)
    /\ activeVerificationCount' = activeVerificationCount + 1
    /\ UNCHANGED <<appState, isRunning, threadCount, pc, taskLocals, result,
                   runVars, eventVars, histVars, parseVars, guiVars>>

\* Lines 559-575: the slot connected to fileFinished (line 535).  For a row
\* that does not exist fileTable.item(index, 2) is None, and line 569 calls
\* setText on it: the slot ends in an unhandled AttributeError.
OnFileFinished(t) ==
    /\ NextSignal("Finished", t)
    /\ activeVerificationCount' = activeVerificationCount - 1
    /\ appState' = IF RowExists(t) THEN appState ELSE "AttributeError"
    /\ UNCHANGED <<isRunning, threadCount, pc, taskLocals, result,
                   runVars, eventVars, histVars, parseVars, guiVars>>

\* Lines 585-603: the slot connected to allFinished (line 536), run by the
\* GUI thread once for the emitted summary.
OnAllFinished ==
    /\ workerThread = "thread"
    /\ NextSignal("allFinished", 0)
    /\ statusMsg' = SummaryMessage(allFinishedEv[Len(allFinishedEv)], ~isRunning)
    /\ SetControlsEnabled(TRUE)
    /\ workerThread' = "None"
    /\ activeVerificationCount' = 0
    /\ UNCHANGED <<appState, isRunning, threadCount, pc, taskLocals, result, runVars,
                   eventVars, histVars, parseVars, tasksLen,
                   verificationMode, modeSelector, page, lastLoad>>

\* Lines 618-623: the window is closed (the Quit button, line 389, or the
\* window's own close control).  Without a worker thread the event is
\* accepted.  With one, line 619 calls self.workerThread.isRunning, which
\* is the bool line 158 stored in the instance and not QThread's method:
\* the call raises TypeError, and lines 620-623 are not reached.
CloseEvent ==
    /\ appState = "running"
    /\ appState' = IF workerThread = "None" THEN "closed" ELSE "TypeError"
    /\ UNCHANGED <<guiQueue, activeVerificationCount, isRunning, threadCount,
                   pc, taskLocals, result, runVars, eventVars, histVars,
                   parseVars, guiVars>>

\* Lines 499-502, _clearFileList, as the values it leaves.
ClearFileList ==
    /\ startEnabled' = FALSE
    /\ tasksLen' = 0

\* Lines 397-399: the operator picks an entry of welcomeModeSelector; the
\* Continue button is enabled exactly when the entry carries a mode.
OnWelcomeModeSelected(m) ==
    /\ appState = "running"
    /\ page = "welcome"
    /\ modeSelector # m
    /\ modeSelector' = m
    /\ UNCHANGED <<slotVars, isRunning, threadCount, pc, taskLocals, result, runVars,
                   eventVars, histVars, parseVars, workerThread, tasksLen,
                   verificationMode, page, startEnabled, browseEnabled,
                   buttonStack, statusMsg, lastLoad>>

\* Lines 401-409: Continue is clicked.
SwitchToMainPage ==
    /\ appState = "running"
    /\ page = "welcome"
    /\ modeSelector # "None"
    /\ verificationMode' = modeSelector
    /\ page' = "main"
    /\ UNCHANGED <<slotVars, isRunning, threadCount, pc, taskLocals, result, runVars,
                   eventVars, histVars, parseVars, workerThread, tasksLen,
                   modeSelector, startEnabled, browseEnabled, buttonStack,
                   statusMsg, lastLoad>>

\* Lines 411-418: Change Mode is clicked (the button is never disabled).
SwitchToWelcomePage ==
    /\ appState = "running"
    /\ page = "main"
    /\ ClearFileList
    /\ buttonStack' = "start"
    /\ statusMsg' = "ready"
    /\ page' = "welcome"
    /\ UNCHANGED <<slotVars, isRunning, threadCount, pc, taskLocals, result, runVars,
                   eventVars, histVars, parseVars, workerThread,
                   verificationMode, modeSelector, browseEnabled, lastLoad>>

\* Lines 419-444: Browse is clicked and a folder is chosen (a dismissed
\* dialog changes nothing).  _findManifest finds no manifest, or
\* _parseManifest returns None, or it returns a list, taken here as empty
\* or of NumTasks tasks.
OnBrowseButtonClicked ==
    /\ appState = "running"
    /\ page = "main"
    /\ browseEnabled
    /\ verificationMode # "None"
    /\ \/ /\ statusMsg' = "manifest not found"
          /\ ClearFileList
          /\ lastLoad' = "not found"
          /\ UNCHANGED buttonStack
       \/ /\ statusMsg' \in {"read error", "legacy read error"}
          /\ lastLoad' = "failed"
          /\ UNCHANGED <<tasksLen, startEnabled, buttonStack>>
       \/ \E n \in {0, NumTasks} :
            /\ tasksLen' = n
            /\ startEnabled' = IF n > 0 THEN TRUE ELSE startEnabled
            /\ buttonStack' = IF n > 0 THEN "start" ELSE buttonStack
            /\ statusMsg' = "manifest loaded"
            /\ lastLoad' = "ok"
    /\ UNCHANGED <<slotVars, isRunning, threadCount, pc, taskLocals, result, runVars,
                   eventVars, histVars, parseVars, workerThread,
                   verificationMode, modeSelector, page, browseEnabled>>

\* Line 532, VerifierThread(self.tasks, threadCount): the thread, and what is
\* recorded about its run, start afresh (ThreadCreated holds afterwards).
VerifierThreadCreate ==
    /\ isRunning' = TRUE
    /\ pc' = [t \in Tasks |-> "unsubmitted"]
    /\ totalSize' = [t \in Tasks |-> 0]
    /\ bytesRead' = [t \in Tasks |-> 0]
    /\ lastPercentage' = [t \in Tasks |-> -1]
    /\ actualMd5' = [t \in Tasks |-> "unset"]
    /\ result' = [t \in Tasks |-> "unset"]
    /\ pcRun' = "l162"
    /\ submitIdx' = 1
    /\ cancelIdx' = 0
    /\ yielded' = {}
    /\ summary' = [k \in SummaryKeys |-> 0]
    /\ startedEv' = [t \in Tasks |-> 0]
    /\ progressEv' = [t \in Tasks |-> <<>>]
    /\ finishedEv' = [t \in Tasks |-> <<>>]
    /\ allFinishedEv' = <<>>
    /\ readsAfterStop' = [t \in Tasks |-> 0]
    /\ inFlightAtStop' = {}

\* Lines 522-538: Start Verification is clicked (with no tasks the handler
\* returns at line 524).  The spin box gives the thread count, the controls
\* are disabled, and a new VerifierThread is created and started.
OnStartButtonClicked ==
    /\ appState = "running"
    /\ page = "main"
    /\ buttonStack = "start"
    /\ startEnabled
    /\ tasksLen > 0
    /\ threadCount' \in 1..MaxThreads
    /\ SetControlsEnabled(FALSE)
    /\ statusMsg' = "in progress"
    /\ workerThread' = "thread"
    /\ activeVerificationCount' = 0
    /\ VerifierThreadCreate
    /\ UNCHANGED <<guiQueue, appState, parseVars, tasksLen, verificationMode,
                   modeSelector, page, lastLoad>>

(* ------------------------- _parseManifest ----------------------------- *)
\* Text is a sequence of one-character strings.  Paths are those of
\* Windows, the platform of the program: os.sep is the backslash, and a
\* directory is the sequence of its components below the drive.
OsSep == "\\"

\* The lines a manifest may hold.
LinePool ==
    { <<>>,
      <<" ", " ">>,
      <<";", "c">>,
      <<" ", ";", "*", "c">>,
      <<"A", "b">>,
      <<"A", "b", " ", "*", "f">>,
      <<"a", "b", "*", "d", "/", "f">>,
      <<"*", "f">>,
      <<"a", "*", "f", "*", "g">>,
      <<"a", "*", ".", ".", OsSep, "f">>,
      <<" ", "a", "*", " ", ".", "/", "f", " ">>,
      <<"a", "*">>,
      <<"a", "*", "/", "f">> }

Manifests == UNION {[1..n -> LinePool] : n \in 0..MaxLines}

REPACK_MANIFEST_NAME == <<"b">>
REPACK_MD5_SUBFOLDER == <<"M">>
UNPACKED_MANIFEST_NAME == <<"u">>
UNPACKED_REDIST_SUBFOLDER == <<"R">>

\* The folder the operator selected, and a subfolder of it.
BaseFolder == << <<"g">> >>
SubFolder == <<"d">>

\* Lines 446-460: the <<manifestPath, rootFolder>> pairs _findManifest can
\* return for a mode (os.walk finds _Redist in the base folder or below).
FindManifest(mode) ==
    IF mode = "REPACK"
      THEN { <<BaseFolder \o <<REPACK_MD5_SUBFOLDER, REPACK_MANIFEST_NAME>>,
               BaseFolder>> }
      ELSE { <<gameRootFolder \o <<UNPACKED_REDIST_SUBFOLDER,
                                    UNPACKED_MANIFEST_NAME>>,
               gameRootFolder>> :
             gameRootFolder \in {BaseFolder, BaseFolder \o <<SubFolder>>} }

RECURSIVE LStrip(_)
LStrip(s) == IF s # <<>> /\ s[1] = " " THEN LStrip(Tail(s)) ELSE s

RECURSIVE RStrip(_)
RStrip(s) ==
    IF s # <<>> /\ s[Len(s)] = " " THEN RStrip(SubSeq(s, 1, Len(s) - 1)) ELSE s

\* str.strip()
Strip(s) == RStrip(LStrip(s))

\* (as a bug: no line counts as a comment)
IsCommentLine_Never(s) == FALSE

\* ln.strip().startswith(';')
IsCommentLine(s) == Strip(s) # <<>> /\ Strip(s)[1] = ";"

\* Lines 466 and 471: [ln.strip() for ln in f if ln.strip() and not
\* ln.strip().startswith(';')]
RECURSIVE ReadLines(_)
ReadLines(f) ==
    IF f = <<>> THEN <<>>
    ELSE IF Strip(Head(f)) # <<>> /\ ~IsCommentLine(Head(f))
           THEN <<Strip(Head(f))>> \o ReadLines(Tail(f))
           ELSE ReadLines(Tail(f))

\* str.find: the index of the first c in s, 0 if there is none.
RECURSIVE Find(_, _)
Find(s, c) ==
    IF s = <<>> THEN 0
    ELSE IF s[1] = c THEN 1
    ELSE IF Find(Tail(s), c) = 0 THEN 0 ELSE 1 + Find(Tail(s), c)

\* line.split('*', 1)
Split1(s, c) ==
    IF Find(s, c) = 0 THEN <<s>>
    ELSE <<SubSeq(s, 1, Find(s, c) - 1), SubSeq(s, Find(s, c) + 1, Len(s))>>

\* str.replace('/', os.sep)
ReplaceSlash(s) == [i \in 1..Len(s) |-> IF s[i] = "/" THEN OsSep ELSE s[i]]

\* The components of a path text, split at the separators (ntpath takes
\* both the slash and the backslash as separators).
RECURSIVE Components(_)
Components(s) ==
    LET i == IF Find(s, OsSep) = 0 THEN Find(s, "/")
             ELSE IF Find(s, "/") = 0 THEN Find(s, OsSep)
             ELSE IF Find(s, "/") < Find(s, OsSep) THEN Find(s, "/")
             ELSE Find(s, OsSep)
    IN  IF i = 0 THEN <<s>>
        ELSE <<SubSeq(s, 1, i - 1)>> \o Components(SubSeq(s, i + 1, Len(s)))

\* os.path.join(dir, rel): a rooted rel replaces the path of dir.
JoinPath(dir, rel) ==
    IF rel # <<>> /\ rel[1] \in {OsSep, "/"} THEN Components(rel)
    ELSE dir \o Components(rel)

\* os.path.normpath on components: empty and "." components go, ".." takes
\* the component before it (and nothing at the root).
RECURSIVE NormPath(_)
NormPath(comps) ==
    IF comps = <<>> THEN <<>>
    ELSE LET front == NormPath(SubSeq(comps, 1, Len(comps) - 1))
             last == comps[Len(comps)]
         IN  IF last = <<>> \/ last = <<".">> THEN front
             ELSE IF last = <<".", ".">>
               THEN IF front = <<>> THEN <<>>
                    ELSE SubSeq(front, 1, Len(front) - 1)
             ELSE Append(front, last)

\* os.path.dirname
Dirname(path) == SubSeq(path, 1, Len(path) - 1)

\* Lines 483-496: the FileTask of a line with a separator.
FileTaskOf(line, manifestDir) ==
    LET parts == Split1(line, "*")
        expected == Strip(parts[1])
        relativePath == ReplaceSlash(Strip(parts[2]))
    IN  [filepath |-> NormPath(JoinPath(manifestDir, relativePath)),
         expectedHash |-> expected,
         relativePath |-> relativePath]

\* Lines 465-466 and 476-478: the manifest is opened and read as UTF-8.  The
\* read gives the lines, fails with UnicodeDecodeError (line 467), or fails
\* otherwise (line 476).
OpenUtf8 ==
    /\ pcParse = "l465"
    /\ \/ /\ lines' = ReadLines(manifest)
          /\ pcParse' = "l482"
          /\ UNCHANGED <<statusMsg, parseResult>>
       \/ /\ pcParse' = "l470"
          /\ statusMsg' = "trying legacy encoding"
          /\ UNCHANGED <<lines, parseResult>>
       \/ /\ pcParse' = "returned"
          /\ parseResult' = "None"
          /\ statusMsg' = "read error"
          /\ UNCHANGED lines
    /\ UNCHANGED <<slotVars, isRunning, threadCount, pc, taskLocals, result, runVars,
                   eventVars, histVars, manifest, manifestPath, rootFolder,
                   parsedTasks, workerThread, tasksLen, verificationMode,
                   modeSelector, page, startEnabled, browseEnabled,
                   buttonStack, lastLoad>>

\* Lines 469-475: the second attempt, as cp1252.
OpenCp1252 ==
    /\ pcParse = "l470"
    /\ \/ /\ lines' = ReadLines(manifest)
          /\ pcParse' = "l482"
          /\ statusMsg' = "read with legacy encoding"
          /\ UNCHANGED parseResult
       \/ /\ pcParse' = "returned"
          /\ parseResult' = "None"
          /\ statusMsg' = "legacy read error"
          /\ UNCHANGED lines
    /\ UNCHANGED <<slotVars, isRunning, threadCount, pc, taskLocals, result, runVars,
                   eventVars, histVars, manifest, manifestPath, rootFolder,
                   parsedTasks, workerThread, tasksLen, verificationMode,
                   modeSelector, page, startEnabled, browseEnabled,
                   buttonStack, lastLoad>>

\* Lines 482-496: one iteration of "for line in lines".
ParseLine ==
    /\ pcParse = "l482"
    /\ lines # <<>>
    /\ lines' = Tail(lines)
    /\ parsedTasks' =
          IF Len(Split1(Head(lines), "*")) # 2 THEN parsedTasks
          ELSE Append(parsedTasks, FileTaskOf(Head(lines), Dirname(manifestPath)))
    /\ UNCHANGED <<slotVars, isRunning, threadCount, pc, taskLocals, result, runVars,
                   eventVars, histVars, guiVars, manifest, manifestPath,
                   rootFolder, pcParse, parseResult>>

\* Line 497: return tasks.
ReturnTasks ==
    /\ pcParse = "l482"
    /\ lines = <<>>
    /\ pcParse' = "returned"
    /\ parseResult' = "tasks"
    /\ UNCHANGED <<slotVars, isRunning, threadCount, pc, taskLocals, result, runVars,
                   eventVars, histVars, guiVars, manifest, manifestPath,
                   rootFolder, lines, parsedTasks>>

(* --------------------------- specification ---------------------------- *)
Next ==
    \/ \E t \in Tasks : PickUp(t)
    \/ \E t \in Tasks : CheckRunning(t)
    \/ \E t \in Tasks : EmitStarted(t)
    \/ \E t \in Tasks : OpenFile(t)
    \/ \E t \in Tasks : LoopCheck(t)
    \/ \E t \in Tasks : ReadChunk(t)
    \/ \E t \in Tasks : ReportProgress(t)
    \/ \E t \in Tasks : FinalProgress(t)
    \/ \E t \in Tasks : PostProcess(t)
    \/ RunBegin
    \/ Submit
    \/ \E t \in Tasks : IterateCompleted(t)
    \/ CancelFuture
    \/ EmitAllFinished
    \/ Stop
    \/ \E t \in Tasks : OnFileStarted(t)
    \/ \E t \in Tasks : OnFileFinished(t)
    \/ OnAllFinished

Spec == Init /\ [][Next]_vars

\* The run thread and the pool threads are operating-system threads and are
\* scheduled fairly; every file-system call returns.  stop() is the
\* controller's choice and is not forced.
FairSpec ==
    /\ Spec
    /\ WF_vars(RunThread)
    /\ \A t \in Tasks : WF_vars(Worker(t))

\* The main window on the main page of a mode, before any manifest is
\* loaded (lines 258-271, 401-409).
GuiMainPage(mode) ==
    /\ workerThread = "None"
    /\ tasksLen = 0
    /\ verificationMode = mode
    /\ modeSelector = mode
    /\ page = "main"
    /\ startEnabled = FALSE
    /\ browseEnabled = TRUE
    /\ buttonStack = "start"
    /\ statusMsg = "ready"
    /\ lastLoad = "none"
    /\ guiQueue = <<>>
    /\ activeVerificationCount = 0
    /\ appState = "running"

\* _parseManifest is called (line 440) on a manifest _findManifest located,
\* whatever its text.
ParseInit ==
    /\ \E mode \in {"REPACK", "UNPACKED"} :
         /\ GuiMainPage(mode)
         /\ \E found \in FindManifest(mode) :
              /\ manifestPath = found[1]
              /\ rootFolder = found[2]
    /\ manifest \in Manifests
    /\ pcParse = "l465"
    /\ lines = <<>>
    /\ parsedTasks = <<>>
    /\ parseResult = "unset"
    /\ threadCount = 1
    /\ ThreadCreated

ParseNext ==
    \/ OpenUtf8
    \/ OpenCp1252
    \/ ParseLine
    \/ ReturnTasks

ParseSpec == ParseInit /\ [][ParseNext]_vars

\* The main window as MainWindow.__init__ leaves it (lines 258-271).
GuiCreated ==
    /\ workerThread = "None"
    /\ tasksLen = 0
    /\ verificationMode = "None"
    /\ modeSelector = "None"
    /\ page = "welcome"
    /\ startEnabled = FALSE
    /\ browseEnabled = TRUE
    /\ buttonStack = "start"
    /\ statusMsg = "ready"
    /\ lastLoad = "none"
    /\ guiQueue = <<>>
    /\ activeVerificationCount = 0
    /\ appState = "running"

\* The application: the operator's actions on the main window, the steps of
\* the VerifierThread while one exists, and the slots its signals reach.
\* An exception a handler leaves unhandled ends the process (PyQt's
\* default), the threads with it.
AppInit ==
    /\ GuiCreated
    /\ ParserIdle
    /\ threadCount = 1
    /\ ThreadCreated

AppNext ==
    \/ \E m \in {"None", "REPACK", "UNPACKED"} : OnWelcomeModeSelected(m)
    \/ SwitchToMainPage
    \/ SwitchToWelcomePage
    \/ OnBrowseButtonClicked
    \/ OnStartButtonClicked
    \/ workerThread = "thread" /\ appState = "running" /\ RunThread
    \/ workerThread = "thread" /\ appState = "running"
          /\ \E t \in Tasks : Worker(t)
    \/ \E t \in Tasks : OnFileStarted(t)
    \/ \E t \in Tasks : OnFileFinished(t)
    \/ OnAllFinished
    \/ CloseEvent

AppSpec == AppInit /\ [][AppNext]_vars

(* ------------------------------ helpers ------------------------------- *)
Last(seq) == seq[Len(seq)]

NonDecreasing(seq) == \A i \in 1..(Len(seq) - 1) : seq[i] <= seq[i + 1]

\* Work items that occupy a pool thread.
ActiveTasks == {t \in Tasks : pc[t] \in RunningPcs}

\* Tasks that ended as Cancelled: their future was cancelled before it ran,
\* or _processFile returned "CANCELLED".
CancelledTasks == {t \in Tasks : pc[t] = "cancelled" \/ result[t] = "CANCELLED"}

\* The fileFinished text that goes with a status code.
FinishedText(code) == IF code = "ERROR" THEN "I/O ERROR" ELSE code

\* str.upper() on the digests the model uses.
Upper(s) ==
    CASE s = "d41d" -> "D41D"
      [] s = "9e10" -> "9E10"
      [] s = "c4ca" -> "C4CA"
      [] OTHER -> s

(* ------------------------------- claims ------------------------------- *)

\* C1: every emitted Summary accounts for every task: ok + failed + missing
\* + error + cancelled = total.  The summary dict of the code has no
\* cancelled entry; the tasks that ended as Cancelled are counted for it.
C1_SummaryAccountsForEveryTask ==
    \A i \in 1..Len(allFinishedEv) :
        LET s == allFinishedEv[i] IN
        s["ok"] + s["failed"] + s["missing"] + s["error"]
            + Cardinality(CancelledTasks) = s["total"]

\* C2: by the time the Summary is emitted, every task has had exactly one
\* Finished event, with a status among OK, Failed, Missing, IOError,
\* Cancelled.
C2_FinishedExactlyOnce ==
    pcRun = "done" =>
        \A t \in Tasks :
            /\ Len(finishedEv[t]) = 1
            /\ finishedEv[t][1] \in {"OK", "FAILED", "MISSING", "I/O ERROR",
                                     "CANCELLED"}

\* C3: once the flag is cleared, a task whose Started has not been emitted
\* never emits Started, never gets into the read loop of its file, and ends
\* as Cancelled.
C3_NoStartAfterStop ==
    [][\A t \in Tasks :
          (~isRunning /\ startedEv[t] = 0) =>
              /\ startedEv'[t] = 0
              /\ pc'[t] \notin ReadLoopPcs
              /\ (pc'[t] = "finished" => result'[t] = "CANCELLED")]_vars

C5_EventOrder ==
    \A t \in Tasks :
        /\ startedEv[t] <= 1
        /\ (progressEv[t] # <<>> => startedEv[t] = 1)
        /\ NonDecreasing(progressEv[t])
        /\ Len(finishedEv[t]) <= 1
        /\ (pc[t] = "finished" /\ startedEv[t] = 1) => Len(finishedEv[t]) = 1

\* C6: when Finished is emitted for a task that ends OK or Failed, the last
\* Progress value emitted for it is exactly 100.
C6_LastProgressIs100 ==
    [][\A t \in Tasks :
          (Len(finishedEv'[t]) > Len(finishedEv[t]) /\ result'[t] \in {"OK", "FAILED"})
              => (progressEv[t] # <<>> /\ Last(progressEv[t]) = 100)]_vars

\* C7: in a run that was not cancelled, a task whose processing raised an
\* unexpected fault has Finished(I/O ERROR) and is counted in the Summary's
\* error counter.
C7_FaultBecomesIOError ==
    (pcRun = "done" /\ isRunning) =>
        \A t \in Tasks :
            result[t] = "EXC" =>
                /\ finishedEv[t] = <<"I/O ERROR">>
                /\ Last(allFinishedEv)["error"] >=
                       Cardinality({u \in Tasks : result[u] = "EXC"})

\* C8: every run eventually emits the Summary, and emits it once.
C8_SummaryEmittedOnce ==
    /\ <>(Len(allFinishedEv) = 1)
    /\ [](Len(allFinishedEv) <= 1)

\* The Summary is out after a run in which one task faulted and the flag was
\* cleared, so that another task's future was cancelled.
C8_Witness ==
    /\ Len(allFinishedEv) = 1
    /\ ~isRunning
    /\ \E t \in Tasks : result[t] = "EXC"
    /\ \E t \in Tasks : pc[t] = "cancelled"

\* C9: the work items running at any moment are at most threadCount.
C9_BoundedConcurrency == Cardinality(ActiveTasks) <= threadCount

\* Every pool thread is busy while a submitted task is still waiting.
C9_Witness ==
    /\ threadCount < NumTasks
    /\ Cardinality(ActiveTasks) = threadCount
    /\ \E t \in Tasks : pc[t] = "pending"

\* C10: in the emitted Summary, each of ok, failed, missing, error is the
\* number of tasks for which Finished with that status was emitted.
C10_SummaryMatchesFinished ==
    \A i \in 1..Len(allFinishedEv) :
        \A code \in {"OK", "FAILED", "MISSING", "ERROR"} :
            allFinishedEv[i][Lower(code)] =
                Cardinality({t \in Tasks : finishedEv[t] = <<FinishedText(code)>>})

\* C15: a task whose file is absent when it is opened ends Missing, or
\* Cancelled when the flag was cleared meanwhile, and none of its chunks is
\* read (calculateMd5 returns None from the open, before the first read);
\* a task whose read fails in any other way ends with status IOError.
C15_AbsentIsMissingElseIOError ==
    [][\A t \in Tasks :
          /\ (actualMd5'[t] = "None" /\ actualMd5[t] # "None") => pc[t] = "l123"
          /\ (pc[t] = "l205" /\ pc'[t] = "finished" /\ actualMd5[t] = "None")
                => \/ result'[t] = "MISSING" /\ finishedEv'[t] = <<"MISSING">>
                   \/ result'[t] = "CANCELLED" /\ ~isRunning
          /\ (pc[t] = "l205" /\ pc'[t] = "finished" /\ actualMd5[t] = "IO_ERROR")
                => \/ result'[t] = "ERROR" /\ finishedEv'[t] = <<"I/O ERROR">>
                   \/ result'[t] = "CANCELLED" /\ ~isRunning
          /\ (pc[t] = "l130" /\ pc'[t] = "finished")
                => result'[t] = "ERROR" /\ finishedEv'[t] = <<"I/O ERROR">>]_vars

\* C16: a task whose file was read to the end, in a run not cancelled, ends
\* OK if the computed digest equals the expected one up to letter case and
\* Failed otherwise, and Finished carries that status; nothing read gives the
\* digest of the empty input.
C16_StatusFollowsDigest ==
    [][\A t \in Tasks :
          /\ (pc[t] = "l205" /\ pc'[t] = "finished" /\ actualMd5[t] \in Digests
                  /\ isRunning)
                => /\ result'[t] = IF Upper(actualMd5[t]) = Upper(expectedHash(t))
                                     THEN "OK" ELSE "FAILED"
                   /\ finishedEv'[t] = Append(finishedEv[t], result'[t])
          /\ (pc[t] # "l205" /\ pc'[t] = "l205" /\ actualMd5'[t] \in Digests
                  /\ bytesRead[t] = 0)
                => actualMd5'[t] = "d41d"]_vars

\* The entry written in upper case, whose file was empty, ended OK, and the
\* other task ended Failed.
C16_Witness ==
    /\ result[1] = "OK" /\ finishedEv[1] = <<"OK">>
    /\ expectedHash(1) # Lower(expectedHash(1))
    /\ result[2] = "FAILED" /\ finishedEv[2] = <<"FAILED">>

\* C17: the flag changes only in a step of stop(), and only to the cancelled
\* value: no worker step and no step of the dispatch loop writes it, and it
\* is never set back.
C17_FlagWrittenOnlyByStop ==
    [][isRunning' # isRunning => (Stop /\ isRunning /\ ~isRunning')]_vars

\* The flag is still cleared when the run is over, after workers and the
\* dispatch loop have gone on with it cleared.
C17_Witness ==
    /\ ~isRunning
    /\ pcRun = "done"
    /\ \E t \in Tasks : result[t] = "CANCELLED" /\ startedEv[t] = 1
    /\ \E t \in Tasks : pc[t] = "cancelled"

\* C18: when the Summary is emitted every task's future is done or
\* cancelled, so that no worker is inside _processFile, and no Started,
\* Progress or Finished event is emitted after the Summary.
C18_SummaryAfterAllTasks ==
    /\ [](Len(allFinishedEv) >= 1 =>
             \A t \in Tasks : pc[t] \in {"cancelled", "finished"})
    /\ [][Len(allFinishedEv) >= 1 => UNCHANGED eventVars]_vars

\* The Summary is out after the dispatch loop left early: a future was not
\* yielded, and a task that had started ended as Cancelled.
C18_Witness ==
    /\ Len(allFinishedEv) = 1
    /\ yielded # Tasks
    /\ \E t \in Tasks : result[t] = "CANCELLED" /\ startedEv[t] = 1

\* C19: every Progress value is between 0 and 100, and each one is greater
\* than the one emitted before it for the same task.
C19_ProgressInRangeAndIncreasing ==
    \A t \in Tasks :
        \A i \in 1..Len(progressEv[t]) :
            /\ progressEv[t][i] \in 0..100
            /\ i > 1 => progressEv[t][i] > progressEv[t][i - 1]

\* C11: the status bar reports "all files verified successfully" only for
\* a run whose okCount equals its total, every task having ended OK.
C11_SuccessMeansAllOk ==
    (statusMsg = "success" /\ workerThread = "None") =>
        /\ allFinishedEv[Len(allFinishedEv)]["ok"] = NumTasks
        /\ \A t \in Tasks : result[t] = "OK"

\* The manifest lines that are not blank, are not comments (their first
\* character that is not a space is not ';') and contain a '*'.
TaskLines ==
    {i \in 1..Len(manifest) :
        /\ \E j \in 1..Len(manifest[i]) :
              /\ manifest[i][j] \notin {" ", ";"}
              /\ \A k \in 1..(j - 1) : manifest[i][k] = " "
        /\ \E j \in 1..Len(manifest[i]) : manifest[i][j] = "*"}

\* The k-th of them, in manifest order.
KthTaskLine(k) ==
    CHOOSE i \in TaskLines : Cardinality({j \in TaskLines : j <= i}) = k

\* What a line has after its first '*'.
AfterFirstStar(line) ==
    LET i == CHOOSE j \in 1..Len(line) :
                 line[j] = "*" /\ \A k \in 1..(j - 1) : line[k] # "*"
    IN  SubSeq(line, i + 1, Len(line))

\* What a line has before its first '*'.
BeforeFirstStar(line) ==
    LET i == CHOOSE j \in 1..Len(line) :
                 line[j] = "*" /\ \A k \in 1..(j - 1) : line[k] # "*"
    IN  SubSeq(line, 1, i - 1)

\* C13: when the manifest could be read, the parser returns a list with
\* exactly one task per non-blank, non-comment line that contains a '*', in
\* manifest order (the k-th task has the path text of the k-th such line);
\* the other lines are skipped, and a manifest without such lines gives the
\* empty list.  No list is returned only when reading failed.
C13_OneTaskPerSeparatorLine ==
    /\ (pcParse = "returned" /\ parseResult = "tasks") =>
          /\ Len(parsedTasks) = Cardinality(TaskLines)
          /\ \A k \in 1..Len(parsedTasks) :
                parsedTasks[k].relativePath =
                    ReplaceSlash(Strip(AfterFirstStar(manifest[KthTaskLine(k)])))
    /\ parseResult = "None" => statusMsg \in {"read error", "legacy read error"}

\* A manifest of two lines was parsed into one task: the first line is a
\* comment that contains a '*', the second one a task line.
C13_Witness ==
    /\ pcParse = "returned"
    /\ parseResult = "tasks"
    /\ Len(manifest) = 2
    /\ TaskLines = {2}
    /\ \E j \in 1..Len(manifest[1]) : manifest[1][j] = "*"
    /\ Len(parsedTasks) = 1

\* C14: the task of a line H*P has H (without the blanks around it) as its
\* expected digest, and as its file path P joined to the rootFolder argument.
C14_PathJoinedToRootFolder ==
    (pcParse = "returned" /\ parseResult = "tasks") =>
        \A k \in 1..Len(parsedTasks) :
            LET line == manifest[KthTaskLine(k)] IN
            /\ parsedTasks[k].expectedHash = Strip(BeforeFirstStar(line))
            /\ parsedTasks[k].filepath =
                   NormPath(JoinPath(rootFolder,
                                     ReplaceSlash(Strip(AfterFirstStar(line)))))

\* C20: every task the parser produced has a non-empty expected digest.
C20_ExpectedDigestNonEmpty ==
    \A k \in 1..Len(parsedTasks) : parsedTasks[k].expectedHash # <<>>

\* C12: after a manifest load that failed because the manifest could not
\* be read or decoded, and until a later load succeeds, no verification run
\* is started and no task is submitted to the pool.
C12_NoRunAfterFailedLoad ==
    [][lastLoad = "failed" =>
          /\ ~(workerThread = "None" /\ workerThread' = "thread")
          /\ (lastLoad' = "failed" =>
                 \A t \in Tasks : pc'[t] = "pending" => pc[t] = "pending")]_vars

\* C21: from the start of a run until its summary has been handled the task
\* list is not modified, whatever the operator does, and every Started or
\* Finished signal is handled while the row of its index exists.
C21_TaskListFixedDuringRun ==
    [][/\ (workerThread = "thread" /\ workerThread' = "thread") =>
              tasksLen' = tasksLen
       /\ \A t \in Tasks :
              (OnFileStarted(t) \/ OnFileFinished(t)) => RowExists(t)]_vars

\* C22: at most one run is active: while a VerifierThread exists whose
\* summary _onAllFinished has not handled yet, no step of the operator
\* (Change Mode, Continue, Browse, Start) creates another VerifierThread.
C22_NoSecondThreadDuringRun ==
    [][workerThread = "thread" => ~OnStartButtonClicked]_vars

\* During a run the operator went through Change Mode and Continue: the
\* main page shows the Start button again, while the thread still exists.
C22_Witness ==
    /\ workerThread = "thread"
    /\ appState = "running"
    /\ page = "main"
    /\ buttonStack = "start"
    /\ pcRun # "done"

\* C23: activeVerificationCount stays between 0 and the thread count of
\* the run, whatever the interleaving of the workers' signals and stop(),
\* and is 0 once the summary has been handled.
C23_ActiveCountInRange ==
    /\ activeVerificationCount \in 0..threadCount
    /\ workerThread = "None" => activeVerificationCount = 0

\* C24: a close of the main window is accepted without error in every
\* state; during a run it first clears the cancellation flag and waits for
\* the thread to finish.
C24_CloseStopsWaitsAndAccepts ==
    [][(appState = "running" /\ appState' \in {"closed", "TypeError"}) =>
          /\ appState' = "closed"
          /\ workerThread = "thread" => (~isRunning' /\ pcRun' = "done")]_vars

=============================================================================
